---- MODULE Spec2Model ----
(***************************************************************************)
(* Command dispatch and session bootstrap of the validator CLI             *)
(* (crates/validator/src/cli/handlers/mod.rs).                             *)
(*                                                                         *)
(* One invocation of CommandHandler::execute_with_context,                 *)
(* HandlerUtils::load_config or HandlerUtils::validate_config is modelled  *)
(* at a time.  Every call that leaves this file (service::, database::,    *)
(* rental::, ValidatorConfig::load_from_file, bittensor::Service::new,     *)
(* get_account_id, Hotkey::new, SimplePersistence::new) is appended to     *)
(* `calls` with its arguments and the value it returned; the value         *)
(* returned is chosen by the environment.  An error is represented by its *)
(* Display text: the literal part of the message and the value formatted   *)
(* into it, if any.                                                        *)
(***************************************************************************)
EXTENDS Integers, Sequences, FiniteSets, TLC

VARIABLES
    pc,                 \* position of the running invocation
    op,                 \* function that was invoked
    command,            \* execute_with_context: command
    global_config,      \* execute_with_context: global_config
    local_test,         \* execute_with_context: local_test
    config_path,        \* load_config: config_path
    config,             \* Rental arm: let config / validate_config: config
    bittensor_service,  \* Rental arm: let bittensor_service
    validator_hotkey,   \* Rental arm: let validator_hotkey
    persistence,        \* Rental arm: let persistence
    calls,              \* calls made out of this file, in order
    stdout,             \* lines written by println!
    tracing_info,       \* events emitted by tracing::info!
    result,             \* value returned by the invocation
    files               \* paths for which Path::exists() is true

vars == <<pc, op, command, global_config, local_test, config_path, config,
          bittensor_service, validator_hotkey, persistence, calls, stdout,
          tracing_info, result, files>>

----------------------------------------------------------------------------
(* Bounds *)

MaxWarnings == 2
NumErrors == 2

----------------------------------------------------------------------------
(* Option and Result values *)

None == [tag |-> "None"]
Some(x) == [tag |-> "Some", val |-> x]
Option(S) == {None} \cup {Some(x) : x \in S}

Ok(x) == [tag |-> "Ok", val |-> x]
Err(e) == [tag |-> "Err", err |-> e]
Unit == <<>>

\* Option::or
OptionOr(a, b) == IF a.tag = "Some" THEN a ELSE b

----------------------------------------------------------------------------
(* Input domains *)

Paths == {"/etc/v.toml", "./local.toml"}
Actions == {"list", "stop"}
Payloads == {"host-a", "host-b"}
Warnings == {"w1", "w2"}
AccountIds == {"acct-1", "acct-2"}
\* anyhow!(literal) and anyhow!("literal{}", arg)
Msg(m) == [msg |-> m, arg |-> None]
MsgWith(m, a) == [msg |-> m, arg |-> a]

\* Errors raised inside the collaborators
CauseErrors == {MsgWith("cause", [n |-> i]) : i \in 1..NumErrors}

SeqsUpTo(S, n) == UNION {[1..k -> S] : k \in 0..n}

Emission == [burn_uid |-> 7, burn_percentage |-> 1250,
             weight_set_interval_blocks |-> 360]
BittensorCommon == [netuid |-> 3, network |-> "finney"]

\* A ValidatorConfig: the fields this file reads, and what validate() and
\* warnings() return for it.
Configs == [emission : {Emission},
            bittensor_common : {BittensorCommon},
            database_url : {"sqlite:a", "sqlite:b"},
            validate : {Ok(Unit)} \cup {Err(e) : e \in CauseErrors},
            warnings : SeqsUpTo(Warnings, MaxWarnings)]

Commands ==
    {[tag |-> "Start", config |-> c] : c \in Option(Paths)}
    \cup {[tag |-> "Stop"], [tag |-> "Status"]}
    \cup {[tag |-> "GenConfig", output |-> o] : o \in Paths}
    \cup {[tag |-> t, payload |-> p] :
             t \in {"Connect", "Verify", "VerifyLegacy"}, p \in Payloads}
    \cup {[tag |-> t, action |-> a] : t \in {"Database", "Rental"}, a \in Actions}

\* Result<()> as returned by a collaborator handler
UnitResults == {Ok(Unit)} \cup {Err(e) : e \in CauseErrors}

Call(f, a, r) == [fn |-> f, args |-> a, ret |-> r]

----------------------------------------------------------------------------
(* Messages *)

HardwareRemoved ==
  Msg(
    "Hardware validation commands have been removed. Use the verification engine API instead.")
LegacyRemoved ==
  Msg(
    "Legacy validation commands have been removed. Use the verification engine API instead.")
RentalConfigRequired == Msg("Configuration required for rental commands")
ConfigPathRequired ==
    Msg("Configuration file path is required for validator operation")
ConfigNotFound(path) ==
    MsgWith("Configuration file not found: {}", [path |-> path])
HotkeyFailed(e) == MsgWith("Failed to create hotkey: {}", e)
ValidationFailed(e) == MsgWith("Configuration validation failed: {}", e)

\* {:.2} of a percentage kept in hundredths: integer part, two decimals
Fmt2(p) == <<p \div 100, (p % 100) \div 10, p % 10>>

LoadingEvent(path) == <<"Loading configuration from: ", path>>
LoadedEvent(c) ==
    <<"Configuration loaded: ", c.emission.burn_uid,
      Fmt2(c.emission.burn_percentage),
      c.emission.weight_set_interval_blocks,
      c.bittensor_common.netuid, c.bittensor_common.network>>

\* print_warning
print_warning(message) == <<"[WARNING] ", message>>
WarningLine(w) == print_warning(<<"Configuration warning: ", w>>)

\* Variant of WarningLines: only the first warning is reported
WarningLinesFirstOnly(ws) ==
    IF ws = <<>> THEN <<>> ELSE <<WarningLine(ws[1])>>

\* lines 107-112: one print_warning per element of config.warnings()
WarningLines(ws) == [i \in 1..Len(ws) |-> WarningLine(ws[i])]

----------------------------------------------------------------------------
(* Initial state: nothing invoked yet *)

Init ==
    /\ pc = "idle"
    /\ op = "none"
    /\ command = None
    /\ global_config = None
    /\ local_test = FALSE
    /\ config_path = None
    /\ config = None
    /\ bittensor_service = None
    /\ validator_hotkey = None
    /\ persistence = None
    /\ calls = <<>>
    /\ stdout = <<>>
    /\ tracing_info = <<>>
    /\ result = None
    /\ files \in SUBSET Paths

\* The process dispatches one parsed command and exits: an invocation begins
\* only from the initial state.
CanInvoke == pc = "idle"

\* execute_with_context entered with (cmd, g, lt): fresh locals
Enter(cmd, g, lt) ==
    /\ CanInvoke
    /\ op' = "execute_with_context"
    /\ command' = cmd
    /\ global_config' = g
    /\ local_test' = lt
    /\ config_path' = None
    /\ stdout' = <<>>
    /\ tracing_info' = <<>>
    /\ UNCHANGED files

NoSession ==
    /\ config' = None
    /\ bittensor_service' = None
    /\ validator_hotkey' = None
    /\ persistence' = None

\* Variant of Forward: a failed call is made a second time
ForwardRetry(f, a) ==
    \E r \in UnitResults :
        /\ calls' = IF r.tag = "Err"
                    THEN <<Call(f, a, r), Call(f, a, r)>>
                    ELSE <<Call(f, a, r)>>
        /\ result' = r
        /\ pc' = "done"
        /\ NoSession

\* A match arm that is a single collaborator call whose result is returned
Forward(f, a) ==
    \E r \in UnitResults :
        /\ calls' = <<Call(f, a, r)>>
        /\ result' = r
        /\ pc' = "done"
        /\ NoSession

\* Variant of Removed: the arm still reaches the service before failing
RemovedCallsService(msg) ==
    /\ calls' = <<Call("service::handle_status", <<>>, Ok(Unit))>>
    /\ result' = Err(msg)
    /\ pc' = "done"
    /\ NoSession

\* A match arm that returns Err(anyhow!(msg)) and does nothing else
Removed(msg) ==
    /\ calls' = <<>>
    /\ result' = Err(msg)
    /\ pc' = "done"
    /\ NoSession

----------------------------------------------------------------------------
(* execute_with_context: the arms that are not Rental *)

\* Variant of StartConfigPath: the command's own path wins
StartConfigPathCommandFirst(g, c) == OptionOr(c, g)

\* line 24: global_config.or(config)
StartConfigPath(g, c) == OptionOr(g, c)

Start ==
    \E c \in Option(Paths), g \in Option(Paths), lt \in BOOLEAN :
        /\ Enter([tag |-> "Start", config |-> c], g, lt)
        /\ Forward("service::handle_start", <<StartConfigPath(g, c), lt>>)

Stop ==
    \E g \in Option(Paths), lt \in BOOLEAN :
        /\ Enter([tag |-> "Stop"], g, lt)
        /\ Forward("service::handle_stop", <<>>)

Status ==
    \E g \in Option(Paths), lt \in BOOLEAN :
        /\ Enter([tag |-> "Status"], g, lt)
        /\ Forward("service::handle_status", <<>>)

\* Variant of GenConfig: the global config path replaces the output path
GenConfigGlobalPath ==
    \E o \in Paths, g \in Option(Paths), lt \in BOOLEAN :
        /\ Enter([tag |-> "GenConfig", output |-> o], g, lt)
        /\ Forward("service::handle_gen_config", <<OptionOr(g, Some(o)).val>>)

GenConfig ==
    \E o \in Paths, g \in Option(Paths), lt \in BOOLEAN :
        /\ Enter([tag |-> "GenConfig", output |-> o], g, lt)
        /\ Forward("service::handle_gen_config", <<o>>)

Connect ==
    \E p \in Payloads, g \in Option(Paths), lt \in BOOLEAN :
        /\ Enter([tag |-> "Connect", payload |-> p], g, lt)
        /\ Removed(HardwareRemoved)

Verify ==
    \E p \in Payloads, g \in Option(Paths), lt \in BOOLEAN :
        /\ Enter([tag |-> "Verify", payload |-> p], g, lt)
        /\ Removed(HardwareRemoved)

VerifyLegacy ==
    \E p \in Payloads, g \in Option(Paths), lt \in BOOLEAN :
        /\ Enter([tag |-> "VerifyLegacy", payload |-> p], g, lt)
        /\ Removed(LegacyRemoved)

Database ==
    \E a \in Actions, g \in Option(Paths), lt \in BOOLEAN :
        /\ Enter([tag |-> "Database", action |-> a], g, lt)
        /\ Forward("database::handle_database", <<a>>)

----------------------------------------------------------------------------
(* execute_with_context: the Rental arm, one action per fallible step *)

\* Display rendering (format!("{x}") and to_string()), kept symbolic
Display(x) == <<"Display", x>>

LoadResults == {Ok(c) : c \in Configs} \cup {Err(e) : e \in CauseErrors}

\* line 48: ValidatorConfig::load_from_file(&config_path)?
RentalLoadFromFile(config_path_) ==
    \E r \in LoadResults :
        /\ calls' = <<Call("ValidatorConfig::load_from_file",
                           <<config_path_>>, r)>>
        /\ IF r.tag = "Ok"
           THEN /\ config' = Some(r.val)
                /\ result' = None
                /\ pc' = "bittensor_new"
           ELSE /\ config' = None
                /\ result' = Err(r.err)
                /\ pc' = "done"

\* Variant of RentalNoConfig: falls back to a default configuration file
RentalDefaultConfig == RentalLoadFromFile("./local.toml")

\* line 50: return Err(anyhow!("Configuration required for rental commands"))
RentalNoConfig ==
    /\ calls' = <<>>
    /\ config' = None
    /\ result' = Err(RentalConfigRequired)
    /\ pc' = "done"

\* lines 46-51: require global_config, then load the configuration
Rental ==
    \E a \in Actions, g \in Option(Paths), lt \in BOOLEAN :
        /\ Enter([tag |-> "Rental", action |-> a], g, lt)
        /\ bittensor_service' = None
        /\ validator_hotkey' = None
        /\ persistence' = None
        /\ IF g.tag = "Some"
           THEN RentalLoadFromFile(g.val)
           ELSE RentalNoConfig

\* Variant of RentalServiceNew: a failed construction is attempted again
RentalServiceNewRetry ==
    /\ pc = "bittensor_new"
    /\ \E r1, r \in {Ok(<<"Service", config.val.bittensor_common>>)}
                  \cup {Err(e) : e \in CauseErrors} :
          /\ calls' = IF r1.tag = "Err"
                THEN calls \o <<Call("bittensor::Service::new",
                                     <<config.val.bittensor_common>>, r1),
                                Call("bittensor::Service::new",
                                     <<config.val.bittensor_common>>, r)>>
                ELSE Append(calls, Call("bittensor::Service::new",
                                        <<config.val.bittensor_common>>, r))
          /\ r1.tag = "Ok" => r = r1
          /\ IF r.tag = "Ok"
             THEN /\ bittensor_service' = Some(r.val)
                  /\ result' = None
                  /\ pc' = "hotkey_new"
             ELSE /\ bittensor_service' = None
                  /\ result' = Err(r.err)
                  /\ pc' = "done"
    /\ UNCHANGED <<op, command, global_config, local_test, config_path,
                   config, validator_hotkey, persistence, stdout,
                   tracing_info, files>>

\* line 53: bittensor::Service::new(config.bittensor.common.clone()).await?
RentalServiceNew ==
    /\ pc = "bittensor_new"
    /\ \E r \in {Ok(<<"Service", config.val.bittensor_common>>)}
                  \cup {Err(e) : e \in CauseErrors} :
          /\ calls' = Append(calls, Call("bittensor::Service::new",
                                         <<config.val.bittensor_common>>, r))
          /\ IF r.tag = "Ok"
             THEN /\ bittensor_service' = Some(r.val)
                  /\ result' = None
                  /\ pc' = "hotkey_new"
             ELSE /\ bittensor_service' = None
                  /\ result' = Err(r.err)
                  /\ pc' = "done"
    /\ UNCHANGED <<op, command, global_config, local_test, config_path,
                   config, validator_hotkey, persistence, stdout,
                   tracing_info, files>>

\* Variant of RentalHotkeyNew: the Hotkey::new error is not propagated
RentalHotkeyNewIgnoreErr ==
    /\ pc = "hotkey_new"
    /\ \E account_id \in AccountIds :
          LET ss58_address == Display(account_id) IN
          \E r \in {Ok(<<"Hotkey", ss58_address>>)}
                     \cup {Err(e) : e \in CauseErrors} :
             /\ calls' = calls
                    \o <<Call("get_account_id", <<bittensor_service.val>>,
                              account_id),
                         Call("Hotkey::new", <<ss58_address>>, r)>>
             /\ validator_hotkey' = Some(<<"Hotkey", ss58_address>>)
             /\ result' = None
             /\ pc' = "persistence_new"
    /\ UNCHANGED <<op, command, global_config, local_test, config_path,
                   config, bittensor_service, persistence, stdout,
                   tracing_info, files>>

\* lines 54-57: get_account_id, format!, Hotkey::new(..).map_err(..)?
RentalHotkeyNew ==
    /\ pc = "hotkey_new"
    /\ \E account_id \in AccountIds :
          LET ss58_address == Display(account_id) IN
          \E r \in {Ok(<<"Hotkey", ss58_address>>)}
                     \cup {Err(e) : e \in CauseErrors} :
             /\ calls' = calls
                    \o <<Call("get_account_id", <<bittensor_service.val>>,
                              account_id),
                         Call("Hotkey::new", <<ss58_address>>, r)>>
             /\ IF r.tag = "Ok"
                THEN /\ validator_hotkey' = Some(r.val)
                     /\ result' = None
                     /\ pc' = "persistence_new"
                ELSE /\ validator_hotkey' = None
                     /\ result' = Err(HotkeyFailed(r.err))
                     /\ pc' = "done"
    /\ UNCHANGED <<op, command, global_config, local_test, config_path,
                   config, bittensor_service, persistence, stdout,
                   tracing_info, files>>

\* Variant of RentalPersistenceNew: the open error is not propagated
RentalPersistenceNewIgnoreErr ==
    /\ pc = "persistence_new"
    /\ LET a == <<config.val.database_url, Display(validator_hotkey.val)>> IN
       \E r \in {Ok(<<"SimplePersistence", a>>)}
                  \cup {Err(e) : e \in CauseErrors} :
          /\ calls' = Append(calls, Call("SimplePersistence::new", a, r))
          /\ persistence' = Some(<<"SimplePersistence", a>>)
          /\ result' = None
          /\ pc' = "handle_rental"
    /\ UNCHANGED <<op, command, global_config, local_test, config_path,
                   config, bittensor_service, validator_hotkey, stdout,
                   tracing_info, files>>

\* lines 58-63: SimplePersistence::new(&config.database.url, hotkey.to_string()).await?
RentalPersistenceNew ==
    /\ pc = "persistence_new"
    /\ LET a == <<config.val.database_url, Display(validator_hotkey.val)>> IN
       \E r \in {Ok(<<"SimplePersistence", a>>)}
                  \cup {Err(e) : e \in CauseErrors} :
          /\ calls' = Append(calls, Call("SimplePersistence::new", a, r))
          /\ IF r.tag = "Ok"
             THEN /\ persistence' = Some(r.val)
                  /\ result' = None
                  /\ pc' = "handle_rental"
             ELSE /\ persistence' = None
                  /\ result' = Err(r.err)
                  /\ pc' = "done"
    /\ UNCHANGED <<op, command, global_config, local_test, config_path,
                   config, bittensor_service, validator_hotkey, stdout,
                   tracing_info, files>>

\* line 65: rental::handle_rental_command(action, validator_hotkey, persistence).await
RentalHandle ==
    /\ pc = "handle_rental"
    /\ \E r \in UnitResults :
          /\ calls' = Append(calls,
                 Call("rental::handle_rental_command",
                      <<command.action, validator_hotkey.val, persistence.val>>,
                      r))
          /\ result' = r
          /\ pc' = "done"
    /\ UNCHANGED <<op, command, global_config, local_test, config_path,
                   config, bittensor_service, validator_hotkey, persistence,
                   stdout, tracing_info, files>>

----------------------------------------------------------------------------
(* HandlerUtils *)

\* Variant of load_config: the path is not checked for existence
load_configNoExistsCheck ==
    /\ CanInvoke
    /\ op' = "load_config"
    /\ command' = None /\ global_config' = None /\ local_test' = FALSE
    /\ NoSession
    /\ stdout' = <<>>
    /\ pc' = "done"
    /\ \E p \in Option(Paths) :
          /\ config_path' = p
          /\ IF p.tag = "Some"
             THEN \E r \in LoadResults :
                     /\ calls' = <<Call("ValidatorConfig::load_from_file",
                                        <<p.val>>, r)>>
                     /\ IF r.tag = "Ok"
                        THEN /\ tracing_info' = <<LoadingEvent(p.val),
                                                  LoadedEvent(r.val)>>
                             /\ result' = Ok(r.val)
                        ELSE /\ tracing_info' = <<LoadingEvent(p.val)>>
                             /\ result' = Err(r.err)
             ELSE /\ calls' = <<>>
                  /\ tracing_info' = <<>>
                  /\ result' = Err(ConfigPathRequired)
    /\ UNCHANGED files

\* lines 80-100
load_config ==
    /\ CanInvoke
    /\ op' = "load_config"
    /\ command' = None /\ global_config' = None /\ local_test' = FALSE
    /\ NoSession
    /\ stdout' = <<>>
    /\ pc' = "done"
    /\ \E p \in Option(Paths) :
          /\ config_path' = p
          /\ IF p.tag = "Some" /\ p.val \in files
             THEN \E r \in LoadResults :
                     /\ calls' = <<Call("ValidatorConfig::load_from_file",
                                        <<p.val>>, r)>>
                     /\ IF r.tag = "Ok"
                        THEN /\ tracing_info' = <<LoadingEvent(p.val),
                                                  LoadedEvent(r.val)>>
                             /\ result' = Ok(r.val)
                        ELSE /\ tracing_info' = <<LoadingEvent(p.val)>>
                             /\ result' = Err(r.err)
             ELSE /\ calls' = <<>>
                  /\ tracing_info' = <<>>
                  /\ result' = IF p.tag = "Some"
                               THEN Err(ConfigNotFound(p.val))
                               ELSE Err(ConfigPathRequired)
    /\ UNCHANGED files

\* lines 102-115
validate_config ==
    /\ CanInvoke
    /\ op' = "validate_config"
    /\ command' = None /\ global_config' = None /\ local_test' = FALSE
    /\ config_path' = None
    /\ bittensor_service' = None
    /\ validator_hotkey' = None
    /\ persistence' = None
    /\ tracing_info' = <<>>
    /\ pc' = "done"
    /\ \E c \in Configs :
          /\ config' = Some(c)
          /\ IF c.validate.tag = "Err"
             THEN /\ calls' = <<Call("validate", <<>>, c.validate)>>
                  /\ stdout' = <<>>
                  /\ result' = Err(ValidationFailed(c.validate.err))
             ELSE /\ calls' = <<Call("validate", <<>>, c.validate),
                                Call("warnings", <<>>, c.warnings)>>
                  /\ stdout' = WarningLines(c.warnings)
                  /\ result' = Ok(Unit)
    /\ UNCHANGED files

----------------------------------------------------------------------------

Next ==
    \/ Start \/ Stop \/ Status \/ GenConfig
    \/ Connect \/ Verify \/ VerifyLegacy
    \/ Database
    \/ Rental \/ RentalServiceNew \/ RentalHotkeyNew
    \/ RentalPersistenceNew \/ RentalHandle
    \/ load_config \/ validate_config

Spec == Init /\ [][Next]_vars

TypeOK ==
    /\ pc \in {"idle", "bittensor_new", "hotkey_new", "persistence_new",
               "handle_rental", "done"}
    /\ op \in {"none", "execute_with_context", "load_config", "validate_config"}
    /\ local_test \in BOOLEAN
    /\ files \subseteq Paths

----------------------------------------------------------------------------
(* Vocabulary of the properties *)

Executing == op = "execute_with_context"
IsCmd(t) == Executing /\ command.tag = t
Finished == pc = "done"

RetiredTags == {"Connect", "Verify", "VerifyLegacy"}
RemovedFeature == {HardwareRemoved, LegacyRemoved}

HandlerFns == {"service::handle_start", "service::handle_stop",
               "service::handle_status", "service::handle_gen_config",
               "database::handle_database", "rental::handle_rental_command"}
BootstrapFns == {"ValidatorConfig::load_from_file", "bittensor::Service::new",
                 "Hotkey::new", "SimplePersistence::new"}
RentalOrder == <<"ValidatorConfig::load_from_file", "bittensor::Service::new",
                 "get_account_id", "Hotkey::new", "SimplePersistence::new",
                 "rental::handle_rental_command">>

FailedCall(c) == c.fn \in BootstrapFns /\ c.ret.tag = "Err"
GoodCall(c) == c.fn \in BootstrapFns /\ c.ret.tag = "Ok"
CallsOf(F) == {i \in DOMAIN calls : calls[i].fn \in F}
IsPrefix(a, b) == Len(a) <= Len(b) /\ \A i \in 1..Len(a) : a[i] = b[i]

\* what dispatch returns when bootstrap call c has failed
Propagated(c) ==
    IF c.fn = "Hotkey::new" THEN Err(HotkeyFailed(c.ret.err)) ELSE Err(c.ret.err)

----------------------------------------------------------------------------
\* C1: a retired command (Connect, Verify, VerifyLegacy), whatever its
\* payload, the global config path and the local-test flag, returns a
\* RemovedFeature failure and makes no call at all: no handler, no
\* configuration load, no client construction, no persistence open.
C1_RetiredFailsWithoutCalls ==
    (Executing /\ command.tag \in RetiredTags) =>
        /\ Finished
        /\ calls = <<>>
        /\ result.tag = "Err"
        /\ result.err \in RemovedFeature
        /\ config = None /\ bittensor_service = None
        /\ validator_hotkey = None /\ persistence = None
        /\ tracing_info = <<>> /\ stdout = <<>>

C1_Witness ==
    /\ IsCmd("VerifyLegacy") /\ Finished
    /\ command.payload = "host-b"
    /\ global_config = Some("/etc/v.toml") /\ local_test
    /\ result = Err(LegacyRemoved)

\* C2: the rental handler is called only for a Rental command and only after
\* load_from_file, Service::new, Hotkey::new and SimplePersistence::new have
\* each returned Ok earlier in the same invocation, and it receives the
\* hotkey and persistence they produced; once any of them has failed the
\* dispatch has returned an error and the rental handler is not called.
C2_RentalOnlyAfterBootstrap ==
    /\ \A i \in CallsOf({"rental::handle_rental_command"}) :
          /\ IsCmd("Rental")
          /\ \A f \in BootstrapFns :
                \E j \in 1..(i - 1) : calls[j].fn = f /\ GoodCall(calls[j])
          /\ \A j \in 1..(i - 1) : ~FailedCall(calls[j])
          /\ \E h, q \in 1..(i - 1) :
                /\ calls[h].fn = "Hotkey::new"
                /\ calls[q].fn = "SimplePersistence::new"
                /\ calls[i].args =
                       <<command.action, calls[h].ret.val, calls[q].ret.val>>
    /\ (IsCmd("Rental") /\ \E j \in DOMAIN calls : FailedCall(calls[j])) =>
          /\ Finished
          /\ result.tag = "Err"
          /\ CallsOf({"rental::handle_rental_command"}) = {}

C2_Witness ==
    /\ IsCmd("Rental") /\ Finished
    /\ Len(calls) = 6
    /\ calls[6].fn = "rental::handle_rental_command"
    /\ calls[6].args = <<command.action, validator_hotkey.val, persistence.val>>
    /\ result = Ok(Unit)

\* C3: a Rental command with no global config path fails with the
\* "Configuration required for rental commands" error and nothing is
\* attempted: no load, no client, no persistence, no rental handler.
C3_RentalNeedsGlobalConfig ==
    (IsCmd("Rental") /\ global_config = None) =>
        /\ Finished
        /\ calls = <<>>
        /\ result = Err(RentalConfigRequired)
        /\ config = None /\ bittensor_service = None /\ persistence = None

C3_Witness ==
    /\ IsCmd("Rental") /\ Finished
    /\ global_config = None
    /\ command.action = "list"
    /\ result.tag = "Err"

\* C4: in a Rental dispatch whose load and client construction succeeded and
\* whose Hotkey::new failed, the result is the "Failed to create hotkey"
\* error wrapping that failure, and SimplePersistence::new is never called.
C4_InvalidIdentityStopsBeforePersistence ==
    \A i \in DOMAIN calls :
        (IsCmd("Rental") /\ calls[i].fn = "Hotkey::new"
                         /\ calls[i].ret.tag = "Err") =>
            /\ Finished
            /\ result = Err(HotkeyFailed(calls[i].ret.err))
            /\ CallsOf({"SimplePersistence::new",
                        "rental::handle_rental_command"}) = {}
            /\ persistence = None

C4_Witness ==
    /\ IsCmd("Rental") /\ Finished
    /\ Len(calls) = 4
    /\ GoodCall(calls[1]) /\ GoodCall(calls[2])
    /\ calls[4].fn = "Hotkey::new" /\ calls[4].ret.tag = "Err"
    /\ result.tag = "Err"

\* C5: Start forwards to service::handle_start the global config path when
\* there is one, else the command's own config (possibly None), together
\* with the unchanged local-test flag, in one call.
C5_StartPrefersGlobalConfig ==
    IsCmd("Start") =>
        /\ Finished
        /\ Len(calls) = 1
        /\ calls[1].fn = "service::handle_start"
        /\ calls[1].args =
              <<IF global_config.tag = "Some" THEN global_config
                                              ELSE command.config,
                local_test>>
        /\ result = calls[1].ret

C5_Witness ==
    /\ IsCmd("Start") /\ Finished
    /\ global_config = Some("/etc/v.toml")
    /\ command.config = Some("./local.toml")
    /\ local_test
    /\ calls[1].args = <<Some("/etc/v.toml"), TRUE>>

\* C6 (as stated): every finished invocation of execute_with_context has
\* made exactly one collaborator call.
C6_ExactlyOneCall ==
    (Executing /\ Finished) => Len(calls) = 1

\* C6 (amended): an invocation never makes more than one handler call
\* (service, database, rental); a finished one has made exactly one when the
\* command is Start, Stop, Status, GenConfig or Database, or is a Rental
\* whose bootstrap calls all succeeded, and none otherwise.
C6_AtMostOneHandlerCall ==
    Executing =>
        /\ Cardinality(CallsOf(HandlerFns)) <= 1
        /\ Finished =>
              (Cardinality(CallsOf(HandlerFns)) = 1
                 <=> \/ command.tag \in {"Start", "Stop", "Status",
                                         "GenConfig", "Database"}
                     \/ /\ command.tag = "Rental"
                        /\ global_config # None
                        /\ \A i \in DOMAIN calls : ~FailedCall(calls[i]))

C6_Witness ==
    /\ IsCmd("Database") /\ Finished
    /\ Len(calls) = 1
    /\ result.tag = "Err"

\* C7: Stop, Status, GenConfig and Database each make exactly the one call
\* named for the variant (GenConfig with the output path, Database with the
\* action) and return its result; neither the global config path nor the
\* local-test flag appears in the call.
C7_SimpleForwards ==
    LET Only(f, a) == /\ Finished
                      /\ Len(calls) = 1
                      /\ calls[1].fn = f
                      /\ calls[1].args = a
                      /\ result = calls[1].ret
    IN  /\ IsCmd("Stop") => Only("service::handle_stop", <<>>)
        /\ IsCmd("Status") => Only("service::handle_status", <<>>)
        /\ IsCmd("GenConfig") =>
              Only("service::handle_gen_config", <<command.output>>)
        /\ IsCmd("Database") =>
              Only("database::handle_database", <<command.action>>)

C7_Witness ==
    /\ IsCmd("GenConfig") /\ Finished
    /\ global_config = Some("/etc/v.toml") /\ local_test
    /\ command.output = "./local.toml"
    /\ calls[1].args = <<"./local.toml">>

\* C8: load_config fails with the "path is required" error when no path is
\* given and with the "file not found" error when the path does not exist;
\* load_from_file is called exactly when a path is given and exists.
C8_LoadConfigPathFailures ==
    op = "load_config" =>
        /\ Finished
        /\ config_path = None =>
              result = Err(ConfigPathRequired) /\ calls = <<>>
        /\ (config_path # None /\ config_path.val \notin files) =>
              /\ result = Err(ConfigNotFound(config_path.val))
              /\ result # Err(ConfigPathRequired)
              /\ calls = <<>>
        /\ (config_path # None /\ config_path.val \in files) =>
              /\ Len(calls) = 1
              /\ calls[1].fn = "ValidatorConfig::load_from_file"
              /\ calls[1].args = <<config_path.val>>

C8_Witness ==
    /\ op = "load_config" /\ Finished
    /\ config_path = Some("./local.toml")
    /\ "./local.toml" \notin files
    /\ "/etc/v.toml" \in files
    /\ result = Err(ConfigNotFound("./local.toml"))

\* C9: for a config that passes validate(), validate_config returns Ok and
\* prints exactly one warning line per element of warnings(), in order.
C9_WarningsNeverFail ==
    (op = "validate_config" /\ config.val.validate.tag = "Ok") =>
        /\ Finished
        /\ result = Ok(Unit)
        /\ Len(stdout) = Len(config.val.warnings)
        /\ \A i \in 1..Len(config.val.warnings) :
              stdout[i] = WarningLine(config.val.warnings[i])

C9_Witness ==
    /\ op = "validate_config" /\ Finished
    /\ config.val.validate.tag = "Ok"
    /\ Len(config.val.warnings) = MaxWarnings
    /\ Len(stdout) = MaxWarnings
    /\ result = Ok(Unit)

\* C10: in a Rental dispatch the calls made are always an initial part of
\* load, client, account id, hotkey, persistence, rental handler (so each is
\* made at most once and in that order); only the last call made can have
\* failed, and a failed bootstrap call ends the dispatch with that failure.
C10_BootstrapOrder ==
    IsCmd("Rental") =>
        /\ IsPrefix([i \in DOMAIN calls |-> calls[i].fn], RentalOrder)
        /\ \A i \in 1..(Len(calls) - 1) : ~FailedCall(calls[i])
        /\ \A i \in DOMAIN calls :
              FailedCall(calls[i]) =>
                  Finished /\ result = Propagated(calls[i])
        /\ (Finished /\ Len(calls) = 6) => result = calls[6].ret
        /\ ~Finished =>
              pc = <<"bittensor_new", "hotkey_new", "",
                     "persistence_new", "handle_rental">>[Len(calls)]

C10_Witness ==
    /\ IsCmd("Rental") /\ Finished
    /\ Len(calls) = 5
    /\ FailedCall(calls[5])
    /\ result = Err(calls[5].ret.err)

====
